---- MODULE Spec2Model ----
(***************************************************************************)
(* Model of the two invoice tools of the repository:                       *)
(*   extract_invoice_data  (agents_flexibility_and_reliability.py and      *)
(*                          agents_prompting_structured_data.py)           *)
(*   store_invoice         (agents_prompting_structured_data.py)           *)
(* Python values are tagged records, dicts are functions.  The action      *)
(* context is its property dict; the invoice mapping is the dict held      *)
(* under "invoice_storage", when the context holds one.                    *)
(***************************************************************************)
EXTENDS Integers, Sequences, FiniteSets, TLC

VARIABLES
    properties,   \* the ActionContext's property dict
    op,           \* the tool invoked last
    arg,          \* its argument (invoice_data or document_text)
    result,       \* what the call did: return a value or raise
    pre,          \* properties as they were when the call started
    storage,      \* store_invoice's local `storage` when the call ended
    llm_calls,    \* the calls made to prompt_llm_for_json during the call
    llm_outcome   \* what the last prompt_llm_for_json call did

vars == <<properties, op, arg, result, pre, storage, llm_calls, llm_outcome>>

(***************************************************************************)
(* Bound of the enumerated inputs: the number of distinct invoice numbers. *)
(***************************************************************************)
NumInvoices == 2

(***************************************************************************)
(* Python values.                                                          *)
(***************************************************************************)
PyNone == [t |-> "None"]
PyStr(s) == [t |-> "str", s |-> s]
PyNum(n) == [t |-> "num", n |-> n]

EmptyDict == [k \in {} |-> PyNone]

\* str(v), as an f-string formats it
PyFormat(v) ==
    IF v.t = "str" THEN v.s
    ELSE IF v.t = "num" THEN ToString(v.n)
    ELSE "None"

\* `is not None` only: the empty string and 0 pass
TruthyNotNone(v) == v.t # "None"

\* bool(v): the operand of `not` in `if not invoice_number`
Truthy(v) ==
    IF v.t = "None" THEN FALSE
    ELSE IF v.t = "str" THEN v.s # ""
    ELSE v.n # 0

\* d.get(k): None when the key is missing
DictGet(d, k) == IF k \in DOMAIN d THEN d[k] ELSE PyNone

\* d.setdefault(k, v): an existing entry is kept
DictSetDefault(d, k, v) ==
    [j \in DOMAIN d \cup {k} |-> IF j \in DOMAIN d THEN d[j] ELSE v]

\* d[k] = {**d.get(k, {}), **v}: the fields of the old entry survive
DictSetMerge(d, k, v) ==
    [j \in DOMAIN d \cup {k} |->
        IF j # k THEN d[j]
        ELSE IF k \notin DOMAIN d THEN v
        ELSE [f \in DOMAIN d[k] \cup DOMAIN v |->
                 IF f \in DOMAIN v THEN v[f] ELSE d[k][f]]]

\* d = {k: v}: every other entry is lost
DictSetOnly(d, k, v) == [j \in {k} |-> v]

\* d[invoice_data.pop("invoice_number")] = invoice_data: the stored record
\* has lost its invoice_number
DictSetPopped(d, k, v) ==
    [j \in DOMAIN d \cup {k} |->
        IF j # k THEN d[j]
        ELSE [f \in DOMAIN v \ {"invoice_number"} |-> v[f]]]

\* d[k] = v
DictSet(d, k, v) ==
    [j \in DOMAIN d \cup {k} |-> IF j = k THEN v ELSE d[j]]

\* action_context.get(key, default): the default is returned, not inserted
ContextGet(props, key, default) ==
    IF key \in DOMAIN props THEN props[key] ELSE default

(***************************************************************************)
(* Inputs.                                                                 *)
(***************************************************************************)
InvoiceNumbers == {PyStr("INV-" \o ToString(i)) : i \in 1..NumInvoices}
InvoiceNumberValues == InvoiceNumbers \cup {PyNone, PyStr(""), PyNum(0)}
Dates == {PyStr("2024-01-01"), PyStr("2024-01-02")}
Amounts == {PyNum(100)}
Documents == {"Invoice # INV-1, total 100"}

FieldValues(f) ==
    IF f = "invoice_number" THEN InvoiceNumberValues
    ELSE IF f = "date" THEN Dates
    ELSE Amounts

\* the dicts a caller, or the capability, can hand over
InvoiceDicts ==
    UNION {{d \in [D -> InvoiceNumberValues \cup Dates \cup Amounts] :
               \A f \in D : d[f] \in FieldValues(f)} :
           D \in SUBSET {"invoice_number", "date", "total_amount"}}

\* the errors the external capability can raise
LLMErrors == {"ExtractionFailure", "TimeoutError"}

Return(v) == [kind |-> "return", value |-> v]
Raise(e, m) == [kind |-> "raise", exc |-> e, msg |-> m]

LLMOutcomes ==
    {Return(d) : d \in InvoiceDicts} \cup {Raise(e, "") : e \in LLMErrors}

NoOutcome == [kind |-> "none"]

(***************************************************************************)
(* store_invoice                                                           *)
(***************************************************************************)
MissingNumberMessage == "Invoice data must contain an invoice number"

\* the dict store_invoice returns
StoreResult(invoice_number) ==
    Return([status |-> "success",
            message |-> "Stored invoice " \o PyFormat(invoice_number),
            invoice_number |-> invoice_number])

\* store_invoice telling an update from an insert in its status
store_invoice_reports_update(invoice_data) ==
    LET held == "invoice_storage" \in DOMAIN properties
        storage0 == ContextGet(properties, "invoice_storage", EmptyDict)
        invoice_number == DictGet(invoice_data, "invoice_number")
    IN  /\ op' = "store_invoice"
        /\ arg' = invoice_data
        /\ pre' = properties
        /\ llm_calls' = <<>>
        /\ llm_outcome' = NoOutcome
        /\ IF ~Truthy(invoice_number)
           THEN /\ result' = Raise("ValueError", MissingNumberMessage)
                /\ storage' = storage0
                /\ UNCHANGED properties
           ELSE /\ storage' = DictSet(storage0, invoice_number, invoice_data)
                /\ properties' =
                       IF held
                       THEN [properties EXCEPT !["invoice_storage"] = storage']
                       ELSE properties
                /\ result' =
                       IF invoice_number \in DOMAIN storage0
                       THEN Return([status |-> "updated",
                                    message |-> "Updated invoice "
                                        \o PyFormat(invoice_number),
                                    invoice_number |-> invoice_number])
                       ELSE StoreResult(invoice_number)

\* `storage` is the very dict the context holds when the context holds one,
\* and a dict of its own, reachable from nowhere else, when it does not
store_invoice(invoice_data) ==
    LET held == "invoice_storage" \in DOMAIN properties
        storage0 == ContextGet(properties, "invoice_storage", EmptyDict)
        invoice_number == DictGet(invoice_data, "invoice_number")
    IN  /\ op' = "store_invoice"
        /\ arg' = invoice_data
        /\ pre' = properties
        /\ llm_calls' = <<>>
        /\ llm_outcome' = NoOutcome
        /\ IF ~Truthy(invoice_number)
           THEN /\ result' = Raise("ValueError", MissingNumberMessage)
                /\ storage' = storage0
                /\ UNCHANGED properties
           ELSE /\ storage' = DictSet(storage0, invoice_number, invoice_data)
                /\ properties' =
                       IF held
                       THEN [properties EXCEPT !["invoice_storage"] = storage']
                       ELSE properties
                /\ result' = StoreResult(invoice_number)

(***************************************************************************)
(* extract_invoice_data, in its two files                                  *)
(***************************************************************************)
\* the schema of agents_flexibility_and_reliability.py
ReliabilitySchema ==
    [required |-> {"invoice_number", "date", "amount"},
     properties |-> {"invoice_number", "date", "amount", "vendor", "line_items"}]

\* the schema of agents_prompting_structured_data.py
StructuredSchema ==
    [required |-> {"invoice_number", "date", "total_amount"},
     properties |-> {"invoice_number", "date", "total_amount", "vendor",
                     "line_items"}]

\* the f-string prompts: a fixed text around the document text
ReliabilityPrompt(document_text) ==
    "Extract invoice information from the following document text. "
        \o document_text
StructuredPrompt(document_text) ==
    "You are an expert invoice analyzer. <invoice>" \o document_text
        \o "</invoice>"

\* the call wrapped in try/except, an empty dict standing in for the error
ExtractWithFallback(name, schema, prompt, document_text, outcome) ==
    /\ op' = name
    /\ arg' = document_text
    /\ pre' = properties
    /\ llm_calls' = <<[schema |-> schema, prompt |-> prompt]>>
    /\ llm_outcome' = outcome
    /\ result' = IF outcome.kind = "raise" THEN Return(EmptyDict) ELSE outcome
    /\ storage' = EmptyDict
    /\ UNCHANGED properties

\* the returned dict checked against the schema's required fields
ExtractRevalidating(name, schema, prompt, document_text, outcome) ==
    /\ op' = name
    /\ arg' = document_text
    /\ pre' = properties
    /\ llm_calls' = <<[schema |-> schema, prompt |-> prompt]>>
    /\ llm_outcome' = outcome
    /\ result' =
           IF outcome.kind = "return"
              /\ ~(schema.required \subseteq DOMAIN outcome.value)
           THEN Raise("ValueError", "missing required field")
           ELSE outcome
    /\ storage' = EmptyDict
    /\ UNCHANGED properties

\* one call of prompt_llm_for_json and what the tool makes of its outcome:
\* the value is returned as it is, the error propagates as it is
Extract(name, schema, prompt, document_text, outcome) ==
    /\ op' = name
    /\ arg' = document_text
    /\ pre' = properties
    /\ llm_calls' = <<[schema |-> schema, prompt |-> prompt]>>
    /\ llm_outcome' = outcome
    /\ result' = outcome
    /\ storage' = EmptyDict
    /\ UNCHANGED properties

extract_invoice_data_reliability(document_text, outcome) ==
    Extract("extract_invoice_data_reliability", ReliabilitySchema,
            ReliabilityPrompt(document_text), document_text, outcome)

extract_invoice_data_structured(document_text, outcome) ==
    Extract("extract_invoice_data_structured", StructuredSchema,
            StructuredPrompt(document_text), document_text, outcome)

ExtractOps ==
    {"extract_invoice_data_reliability", "extract_invoice_data_structured"}

(***************************************************************************)
(* Specification                                                           *)
(***************************************************************************)
\* a context without an invoice mapping, or one holding an empty mapping
InitialProperties ==
    {[k \in {} |-> EmptyDict], [k \in {"invoice_storage"} |-> EmptyDict]}

Init ==
    /\ properties \in InitialProperties
    /\ op = "init"
    /\ arg = EmptyDict
    /\ result = NoOutcome
    /\ pre = properties
    /\ storage = EmptyDict
    /\ llm_calls = <<>>
    /\ llm_outcome = NoOutcome

Next ==
    \/ \E invoice_data \in InvoiceDicts : store_invoice(invoice_data)
    \/ \E document_text \in Documents, outcome \in LLMOutcomes :
           extract_invoice_data_reliability(document_text, outcome)
    \/ \E document_text \in Documents, outcome \in LLMOutcomes :
           extract_invoice_data_structured(document_text, outcome)

Spec == Init /\ [][Next]_vars

TypeOK ==
    /\ DOMAIN properties \subseteq {"invoice_storage"}
    /\ op \in {"init", "store_invoice"} \cup ExtractOps

(***************************************************************************)
(* Properties                                                              *)
(***************************************************************************)
HasMapping(props) == "invoice_storage" \in DOMAIN props

\* the invoice mapping a reader of the context sees
Mapping(props) ==
    IF HasMapping(props) THEN props["invoice_storage"] ELSE EmptyDict

Stored == op = "store_invoice" /\ result.kind = "return"

MissingOrEmptyNumber(d) ==
    \/ "invoice_number" \notin DOMAIN d
    \/ d["invoice_number"] = PyStr("")

\* C1  Key requirement: store_invoice with a record whose invoice_number is
\* missing or is the empty string raises ValueError with the
\* missing-identifier message and leaves the context's mapping as it was.
C1_KeyRequirement ==
    (op = "store_invoice" /\ MissingOrEmptyNumber(arg)) =>
        /\ result = Raise("ValueError", MissingNumberMessage)
        /\ properties = pre

\* a record with an empty invoice_number was refused on a non-empty mapping
C1_Witness ==
    /\ op = "store_invoice"
    /\ DictGet(arg, "invoice_number") = PyStr("")
    /\ "date" \in DOMAIN arg
    /\ result.kind = "raise"
    /\ DOMAIN Mapping(pre) # {}

\* C2  Lazy creation: a successful store_invoice(r) on a context that holds
\* no mapping under "invoice_storage" leaves the context holding a mapping
\* that contains r at key r.invoice_number.
C2_LazyCreation ==
    (Stored /\ ~HasMapping(pre)) =>
        /\ HasMapping(properties)
        /\ arg["invoice_number"] \in DOMAIN Mapping(properties)
        /\ Mapping(properties)[arg["invoice_number"]] = arg

\* C3  Round trip: on a context that holds a mapping, after a successful
\* store_invoice(r) the mapping read at r.invoice_number is exactly r.
C3_RoundTrip ==
    (Stored /\ HasMapping(pre)) =>
        /\ HasMapping(properties)
        /\ arg["invoice_number"] \in DOMAIN Mapping(properties)
        /\ Mapping(properties)[arg["invoice_number"]] = arg

\* a full record was stored in a held mapping
C3_Witness ==
    /\ Stored
    /\ HasMapping(pre)
    /\ DOMAIN arg = {"invoice_number", "date", "total_amount"}
    /\ Mapping(properties)[arg["invoice_number"]] = arg

\* C4  Idempotent upsert: on a context that holds a mapping, a second
\* store_invoice(r) right after a successful store_invoice(r) succeeds and
\* leaves the mapping as the first call left it, with r at r.invoice_number.
C4_IdempotentUpsert ==
    [][(/\ Stored
        /\ HasMapping(properties)
        /\ op' = "store_invoice"
        /\ arg' = arg)
       => (/\ result'.kind = "return"
           /\ properties' = properties
           /\ arg["invoice_number"] \in DOMAIN Mapping(properties')
           /\ Mapping(properties')[arg["invoice_number"]] = arg)]_vars

\* r was stored on a mapping that already held r, next to another entry
C4_Witness ==
    /\ Stored
    /\ HasMapping(pre)
    /\ arg["invoice_number"] \in DOMAIN Mapping(pre)
    /\ Mapping(pre)[arg["invoice_number"]] = arg
    /\ properties = pre
    /\ Cardinality(DOMAIN Mapping(properties)) = 2

\* C5  Overwrite: a successful store_invoice(r2) on a mapping that already
\* has an entry for r2.invoice_number replaces that entry by r2, whole, and
\* leaves the set of keys, hence the number of entries, unchanged.
C5_Overwrite ==
    (Stored /\ arg["invoice_number"] \in DOMAIN Mapping(pre)) =>
        /\ Mapping(properties)[arg["invoice_number"]] = arg
        /\ DOMAIN Mapping(properties) = DOMAIN Mapping(pre)
        /\ Cardinality(DOMAIN Mapping(properties))
               = Cardinality(DOMAIN Mapping(pre))

\* an entry with a date and an amount was replaced by one with another
\* date and no amount
C5_Witness ==
    /\ Stored
    /\ arg["invoice_number"] \in DOMAIN Mapping(pre)
    /\ DOMAIN Mapping(pre)[arg["invoice_number"]]
           = {"invoice_number", "date", "total_amount"}
    /\ DOMAIN arg = {"invoice_number", "date"}
    /\ arg["date"] # Mapping(pre)[arg["invoice_number"]]["date"]
    /\ Mapping(properties)[arg["invoice_number"]] = arg

\* C6  Store invariant: every entry of the mapping has a non-empty
\* invoice_number and is filed under the key equal to it.
C6_StoreInvariant ==
    \A k \in DOMAIN Mapping(properties) :
        /\ k # PyNone
        /\ k # PyStr("")
        /\ "invoice_number" \in DOMAIN Mapping(properties)[k]
        /\ Mapping(properties)[k]["invoice_number"] = k

\* a store was refused while the mapping held two entries
C6_Witness ==
    /\ op = "store_invoice"
    /\ result.kind = "raise"
    /\ Cardinality(DOMAIN Mapping(properties)) = 2

\* C7  Extraction failure propagation: when prompt_llm_for_json raises,
\* extract_invoice_data raises that same error and the context is unchanged.
C7_ExtractionFailurePropagation ==
    (op \in ExtractOps /\ llm_outcome.kind = "raise") =>
        /\ result = llm_outcome
        /\ properties = pre

\* the capability's ExtractionFailure came out of the tool
C7_Witness ==
    /\ op \in ExtractOps
    /\ llm_outcome.kind = "raise"
    /\ result.kind = "raise"
    /\ result.exc = "ExtractionFailure"
    /\ DOMAIN Mapping(properties) # {}

\* C8  Extraction pass-through: extract_invoice_data calls the capability
\* exactly once and returns the value the capability returned, unchanged.
C8_ExtractionPassThrough ==
    op \in ExtractOps =>
        /\ Len(llm_calls) = 1
        /\ llm_outcome.kind = "return" => result = llm_outcome

\* a dict lacking required fields came back as the capability returned it
C8_Witness ==
    /\ op \in ExtractOps
    /\ llm_outcome.kind = "return"
    /\ DOMAIN llm_outcome.value = {"invoice_number"}
    /\ result = llm_outcome

\* C9  Uniform success result: a successful store_invoice(r) returns status
\* "success", the confirmation message and r.invoice_number, and a second
\* store of r, which finds the key present, returns the same result.
C9_UniformSuccessResult ==
    [][/\ (op' = "store_invoice" /\ result'.kind = "return") =>
              (/\ result'.value.status = "success"
               /\ result'.value.invoice_number = arg'["invoice_number"]
               /\ result'.value.message
                      = "Stored invoice "
                            \o PyFormat(arg'["invoice_number"]))
       /\ (Stored /\ op' = "store_invoice" /\ arg' = arg) =>
              result' = result]_vars

\* a success was returned for a key that was present before the call
C9_Witness ==
    /\ Stored
    /\ arg["invoice_number"] \in DOMAIN Mapping(pre)
    /\ result.value.status = "success"

\* C10  Frame of store: a step keeps the context's mapping, keeps every key
\* of it, and changes no entry but the one under the invoice_number of a
\* store_invoice call.
C10_FrameOfStore ==
    [][/\ HasMapping(properties) => HasMapping(properties')
       /\ \A k \in DOMAIN Mapping(properties) :
              /\ k \in DOMAIN Mapping(properties')
              /\ (\/ op' # "store_invoice"
                  \/ k # DictGet(arg', "invoice_number"))
                 => Mapping(properties')[k] = Mapping(properties)[k]]_vars

\* an entry was added next to one that was there before
C10_Witness ==
    /\ Stored
    /\ arg["invoice_number"] \notin DOMAIN Mapping(pre)
    /\ DOMAIN Mapping(pre) # {}
    /\ \A k \in DOMAIN Mapping(pre) :
           Mapping(properties)[k] = Mapping(pre)[k]

====
